---- MODULE Spec2Model ----
(***************************************************************************)
(* qflow: a durable HTTP fan-out proxy.                                    *)
(*                                                                         *)
(* One ingress handler (HandleRequest) turns each incoming HTTP request    *)
(* into a record and sends it to the Writer channel of every endpoint.     *)
(* Each endpoint owns a durable (disk-backed) queue fed by Writer, a       *)
(* dispatcher (ReadDiskChannel) that moves records from the queue's output *)
(* channel into the buffered WorkerChannel, and `concurrency` workers      *)
(* (HTTPWorker) that call an upstream host and send the record back to     *)
(* Writer when the call fails.                                             *)
(*                                                                         *)
(* The durable queue itself (package pkg/durable) is not part of the       *)
(* sources at hand; it is modelled from the specification's section 4.1 as *)
(* a FIFO that rejects records outside [min_msg_size, max_msg_size] and    *)
(* whose content survives a process kill.  That is the strongest queue the *)
(* specification allows: every loss the model shows is caused by the code  *)
(* around the queue.                                                       *)
(*                                                                         *)
(* Specifications:                                                         *)
(*   Spec            the serving process: handlers, dispatchers, workers   *)
(*   FairSpec        Spec with the handlers scheduled fairly               *)
(*   StallSpec       Spec with durable queues that are busy at times       *)
(*   CrashSpec       Spec with a kill and restart of the process           *)
(*   StartSpec       ListenAndServe from its first line to serving         *)
(*   TransportSpec   the prologue of the worker goroutines                 *)
(*   ReplaySpec      the pipelines draining a backlog left on disk         *)
(*   FairReplaySpec  ReplaySpec with the workers' re-enqueue scheduled     *)
(***************************************************************************)
EXTENDS Integers, Sequences, FiniteSets, TLC

\* ---------------------------------------------------------------- bounds

MaxReq == 2          \* ingress requests a behaviour may contain
NumEndpoints == 2    \* configured endpoint groups (config.Endpoints)
NumHosts == 2        \* hosts per endpoint group (endpoint.Hosts)
Concurrency == 2     \* workers per endpoint (config.HTTP.Concurrency)
MaxFail == 1         \* transport errors a behaviour may contain
MaxCrash == 1        \* process kills a behaviour may contain
MaxMsgSize == 2      \* config.Queue.MaxMessageSize, in bytes

\* ------------------------------------------------------ program constants

MinMsgSize == 0
StatusNoContent == 204
StatusBadRequest == 400

Reqs == 1..MaxReq
Eps == 1..NumEndpoints
Workers == 1..Concurrency
Hosts == 0..(NumHosts - 1)

\* Request targets: "/ingest" is an origin-form target, which appended to a
\* host base gives a URL http.NewRequest parses; "http://x/" is an
\* absolute-form target, which appended to a host base such as
\* "http://[::1]:80" gives a string url.Parse rejects (invalid port).
URLs == {"/ingest", "http://x/"}

\* Body lengths an ingress request may carry: exactly the configured maximum,
\* and one byte more than the maximum.
BodySizes == {MaxMsgSize, MaxMsgSize + 1}

\* The ingress requests of the model: a body at the size limit or over it
\* with an origin-form target, and a body at the limit with an absolute-form
\* target.
Inputs == {[size |-> sz, url |-> u] : sz \in BodySizes, u \in URLs}
              \ {[size |-> MaxMsgSize + 1, url |-> "http://x/"]}

\* The zero value of a record slot.
NoReq == [id |-> 0, size |-> 0, url |-> ""]

VARIABLES
    hpc,          \* hpc[r]: position of the handler goroutine serving request r
    hidx,         \* hidx[r]: index of the next endpoint in HandleRequest's loop
    rec,          \* rec[r]: the durable.Request built by the handler
    resp,         \* resp[r]: status written to the client (0: none yet)
    requests,     \* prometheus counter "requests"
    failures,     \* prometheus counter "failures"
    queue,        \* queue[e]: the durable queue of endpoint e, oldest first
    dpc,          \* dpc[e]: position of ReadDiskChannel
    ditem,        \* ditem[e]: the record ReadDiskChannel holds
    dcount,       \* dcount[e]: ReadDiskChannel's local variable count
    wchan,        \* wchan[e]: content of the buffered WorkerChannel
    wpc,          \* wpc[e][w]: position of worker w of endpoint e
    wreq,         \* wreq[e][w]: the record the worker holds
    wcount,       \* wcount[e][w]: the worker's local variable count
    epRequests,   \* prometheus counter endpoint_requests{e}
    epFailures,   \* prometheus counter endpoint_failures{e}
    crashes,      \* process kills so far
    nfail,        \* transport errors so far
    \* observers (history of the run, read by the properties only)
    handed,       \* handed[r][e]: sends of r to e's Writer by HandleRequest
    okCalls,      \* okCalls[e][r]: non-error HTTP completions carrying r
    \* observers of the running process
    enqOrder,     \* enqOrder[e]: ids in the order Writer received them
    takenOrder,   \* takenOrder[e]: ids in the order workers received them
    sentTo,       \* sentTo[e][w]: host index of each dispatch of the worker
    ahead,        \* ahead[e][r]: ids queued before r's last re-enqueue, not yet taken
    aheadAt,      \* aheadAt[e][r]: ids in the queue at r's last re-enqueue
    \* the environment of a run
    upstream,     \* upstream[e]: class of status the hosts of e answer with
    failCap,      \* transport errors the run's upstreams produce at most
    accepting,    \* accepting[e]: the durable queue of e receives from Writer
    \* startup (ListenAndServe)
    cfg,          \* cfg[e][h]: the host strings of config.Endpoints, per group
    boot,         \* position of ListenAndServe
    started,      \* started[e]: goroutines spawned for endpoint e
    \* http.DefaultTransport
    tlsWriters,   \* workers inside their store to TLSClientConfig
    tlsStores     \* workers whose store has completed, in that order

vars == <<hpc, hidx, rec, resp, requests, failures, queue, dpc, ditem, dcount, wchan,
          wpc, wreq, wcount, epRequests, epFailures, crashes, nfail, handed, okCalls,
          enqOrder, takenOrder, sentTo, ahead, aheadAt, upstream, failCap,
          accepting, cfg, boot, started, tlsWriters, tlsStores>>

envVars == <<upstream, failCap, accepting>>
startVars == <<cfg, boot, started>>
tlsVars == <<tlsWriters, tlsStores>>
setupVars == <<envVars, startVars, tlsVars>>
budget == <<crashes, nfail>>
pipeVars == <<queue, dpc, ditem, dcount, wchan, wpc, wreq, wcount>>
ingressVars == <<hpc, hidx, rec, resp, requests, failures, handed>>
runVars == <<ingressVars, pipeVars, epRequests, epFailures, budget, okCalls,
             enqOrder, takenOrder, sentTo, ahead, aheadAt>>

\* ------------------------------------------------------------- helpers

Ids(s) == {s[i].id : i \in 1..Len(s)}

Range(s) == {s[i] : i \in 1..Len(s)}

\* ------------------------------------------------- durable queue (4.1)

\* The encoded size of a record, as the queue's size check sees it.
EncodedSize(r) == r.size

\* enqueue(record) accepts a record whose encoded size is within
\* [min_msg_size, max_msg_size] and fails with OversizedRecord otherwise.
Accepts(r) == MinMsgSize <= EncodedSize(r) /\ EncodedSize(r) <= MaxMsgSize

\* The queue after Writer received r: appended at the tail when accepted.
Enqueue(q, r) == IF Accepts(r) THEN Append(q, r) ELSE q

\* ------------------------------------------------------------- channels

\* A hand-over that lets the newest record overtake the waiting ones.
ChanSendFront(ch, x) == <<x>> \o ch

\* A send on a buffered Go channel: the value joins the buffer's tail.
ChanSend(ch, x) == Append(ch, x)

\* ------------------------------------------------------------- startup

\* Host strings a configuration may carry: two valid bases, a base with
\* another scheme, and a host:port written without a scheme.
HostStrings == {"http://a", "https://a", "ftp://a", "127.0.0.1:8080"}

\* The nil *url.URL.
Nil == [Scheme |-> "nil"]

\* url.ParseRequestURI: a string with a scheme parses to a URL carrying that
\* scheme; "127.0.0.1:8080" has no scheme (a scheme starts with a letter)
\* and no leading slash: the result is (nil, "invalid URI for request").
ParseRequestURI(s) ==
    CASE s = "http://a"  -> [url |-> [Scheme |-> "http"], err |-> FALSE]
      [] s = "https://a" -> [url |-> [Scheme |-> "https"], err |-> FALSE]
      [] s = "ftp://a"   -> [url |-> [Scheme |-> "ftp"], err |-> FALSE]
      [] OTHER           -> [url |-> Nil, err |-> TRUE]

\* isValidURL(s), in the order of its statements: url.Scheme is read first
\* (a nil url makes the read panic), the error is looked at afterwards.
isValidURL(s) ==
    LET p == ParseRequestURI(s) IN
    IF p.url = Nil THEN "panic"
    ELSE IF p.url.Scheme # "http" /\ p.url.Scheme # "https" THEN "false"
    ELSE IF p.err THEN "false"
    ELSE "true"

\* Sequences over S of length 0..n.
SeqsUpTo(S, n) == UNION {[1..k -> S] : k \in 0..n}

\* The configurations of the model: up to NumEndpoints groups of up to
\* NumHosts host strings.
Configs == SeqsUpTo(SeqsUpTo(HostStrings, NumHosts), NumEndpoints)

\* No goroutine spawned yet for an endpoint; all of them spawned.
NotStarted == [workers |-> 0, dispatcher |-> FALSE]
AllStarted == [workers |-> Concurrency, dispatcher |-> TRUE]

\* ---------------------------------------------------------------- Init

\* The state once ListenAndServe serves: a valid configuration of
\* NumEndpoints groups with NumHosts hosts each, every goroutine spawned and
\* past its prologue.
InitServing ==
    /\ cfg = [e \in Eps |-> [h \in 1..NumHosts |-> "http://a"]]
    /\ boot = [pc |-> "serving", ep |-> NumEndpoints + 1, host |-> 1, msg |-> <<>>]
    /\ started = [e \in Eps |-> AllStarted]
    /\ tlsWriters = {}
    /\ tlsStores = [i \in 1..(NumEndpoints * Concurrency) |->
                        <<((i - 1) \div Concurrency) + 1, ((i - 1) % Concurrency) + 1>>]

\* Upstreams that answer 2xx when they answer and fail at most MaxFail
\* times, durable queues that receive from Writer.
InitEnv ==
    /\ upstream = [e \in Eps |-> "2xx"]
    /\ failCap = MaxFail
    /\ accepting = [e \in Eps |-> TRUE]

\* Idle handlers, empty queues and channels, goroutines waiting to receive,
\* counters at zero.
InitPipeline ==
    /\ hpc = [r \in Reqs |-> "idle"]
    /\ hidx = [r \in Reqs |-> 1]
    /\ rec = [r \in Reqs |-> NoReq]
    /\ resp = [r \in Reqs |-> 0]
    /\ requests = 0
    /\ failures = 0
    /\ queue = [e \in Eps |-> <<>>]
    /\ dpc = [e \in Eps |-> "recv"]
    /\ ditem = [e \in Eps |-> NoReq]
    /\ dcount = [e \in Eps |-> 0]
    /\ wchan = [e \in Eps |-> <<>>]
    /\ wpc = [e \in Eps |-> [w \in Workers |-> "recv"]]
    /\ wreq = [e \in Eps |-> [w \in Workers |-> NoReq]]
    /\ wcount = [e \in Eps |-> [w \in Workers |-> 0]]
    /\ epRequests = [e \in Eps |-> 0]
    /\ epFailures = [e \in Eps |-> 0]
    /\ crashes = 0
    /\ nfail = 0
    /\ handed = [r \in Reqs |-> [e \in Eps |-> 0]]
    /\ okCalls = [e \in Eps |-> [r \in Reqs |-> 0]]
    /\ enqOrder = [e \in Eps |-> <<>>]
    /\ takenOrder = [e \in Eps |-> <<>>]
    /\ sentTo = [e \in Eps |-> [w \in Workers |-> <<>>]]
    /\ ahead = [e \in Eps |-> [r \in Reqs |-> {}]]
    /\ aheadAt = [e \in Eps |-> [r \in Reqs |-> {}]]

Init ==
    /\ InitServing
    /\ InitEnv
    /\ InitPipeline

\* ------------------------------------------------------------- ingress

\* A handler that counts every request as a failure.
CountFailureAlways(f, readErr) == f + 1

\* The counter "failures" after ioutil.ReadAll: failures.Inc() inside
\* "if err != nil" only.
CountFailure(f, readErr) == IF readErr THEN f + 1 ELSE f

\* HandleRequest up to the fan-out loop: requests.Inc(), ioutil.ReadAll of
\* the body (no size limit is applied), and on a read error failures.Inc()
\* and the 400 reply.  Request ids are handed out in arrival order.
HandleRequest(r) ==
    /\ hpc[r] = "idle"
    /\ \A p \in Reqs : p < r => hpc[p] # "idle"
    /\ requests' = requests + 1
    /\ \E readErr \in BOOLEAN :
        /\ failures' = CountFailure(failures, readErr)
        /\ IF readErr
           THEN /\ resp' = [resp EXCEPT ![r] = StatusBadRequest]
                /\ hpc' = [hpc EXCEPT ![r] = "done"]
                /\ UNCHANGED rec
           ELSE /\ \E in \in Inputs :
                    rec' = [rec EXCEPT ![r] = [id |-> r, size |-> in.size, url |-> in.url]]
                /\ hpc' = [hpc EXCEPT ![r] = "fanout"]
                /\ UNCHANGED resp
    /\ UNCHANGED <<hidx, handed, pipeVars, epRequests, epFailures, budget,
                   okCalls, enqOrder, takenOrder, sentTo, ahead, aheadAt, setupVars>>

\* A fan-out loop that stops one endpoint short.
FanoutCompleteEarly(r) == hidx[r] >= NumEndpoints

\* The loop "for _, endpoint := range h.Endpoints" has visited every endpoint.
FanoutComplete(r) == hidx[r] > NumEndpoints

\* A handler that sends the record straight to the buffered WorkerChannel.
IngressSendToWorkers(e, q) ==
    /\ Len(wchan[e]) < Concurrency
    /\ wchan' = [wchan EXCEPT ![e] = Append(@, q)]
    /\ UNCHANGED <<queue, enqOrder>>

\* endpoint.Writer <- r in the handler: Writer is unbuffered, the send
\* completes when the durable queue of the endpoint receives the record.
IngressSend(e, q) ==
    /\ accepting[e]
    /\ queue' = [queue EXCEPT ![e] = Enqueue(@, q)]
    /\ enqOrder' = [enqOrder EXCEPT ![e] = Append(@, q.id)]
    /\ UNCHANGED wchan

\* One iteration of the fan-out loop, in the order of h.Endpoints.
HandleFanout(r) ==
    /\ hpc[r] = "fanout"
    /\ ~FanoutComplete(r)
    /\ IngressSend(hidx[r], rec[r])
    /\ handed' = [handed EXCEPT ![r][hidx[r]] = @ + 1]
    /\ hidx' = [hidx EXCEPT ![r] = @ + 1]
    /\ UNCHANGED <<hpc, rec, resp, requests, failures, dpc, ditem, dcount, wpc,
                   wreq, wcount, epRequests, epFailures, budget, okCalls,
                   takenOrder, sentTo, ahead, aheadAt, setupVars>>

\* A handler that answers once every endpoint has delivered the record.
AckAfterDelivery(r) == FanoutComplete(r) /\ \A e \in Eps : okCalls[e][r] >= 1

\* The handler reaches its reply when the loop is over: nothing else stands
\* between the last send and WriteHeader.
AckReady(r) == FanoutComplete(r)

\* After the loop: w.WriteHeader(http.StatusNoContent).
HandleReply(r) ==
    /\ hpc[r] = "fanout"
    /\ AckReady(r)
    /\ resp' = [resp EXCEPT ![r] = StatusNoContent]
    /\ hpc' = [hpc EXCEPT ![r] = "done"]
    /\ UNCHANGED <<hidx, rec, requests, failures, handed, pipeVars, epRequests,
                   epFailures, budget, okCalls, enqOrder, takenOrder, sentTo,
                   ahead, aheadAt, setupVars>>

\* ---------------------------------------------------------- dispatcher

\* ReadDiskChannel, first half: item := <-endpoint.DurableChannel and
\* count++ (count only paces a debug log line).  The receive is the only
\* signal the queue gets from its consumer: the record leaves the queue here.
ReadDiskChannelRecv(e) ==
    /\ dpc[e] = "recv"
    /\ queue[e] # <<>>
    /\ ditem' = [ditem EXCEPT ![e] = Head(queue[e])]
    /\ dcount' = [dcount EXCEPT ![e] = @ + 1]
    /\ queue' = [queue EXCEPT ![e] = Tail(@)]
    /\ dpc' = [dpc EXCEPT ![e] = "send"]
    /\ UNCHANGED <<ingressVars, wchan, wpc, wreq, wcount, epRequests,
                   epFailures, budget, okCalls, enqOrder, takenOrder, sentTo,
                   ahead, aheadAt, setupVars>>

\* ReadDiskChannel, second half: endpoint.WorkerChannel <- &req, which blocks
\* while the channel holds `concurrency` records.
ReadDiskChannelSend(e) ==
    /\ dpc[e] = "send"
    /\ Len(wchan[e]) < Concurrency
    /\ wchan' = [wchan EXCEPT ![e] = ChanSend(@, ditem[e])]
    /\ ditem' = [ditem EXCEPT ![e] = NoReq]
    /\ dpc' = [dpc EXCEPT ![e] = "recv"]
    /\ UNCHANGED <<ingressVars, queue, dcount, wpc, wreq, wcount, epRequests,
                   epFailures, budget, okCalls, enqOrder, takenOrder, sentTo,
                   ahead, aheadAt, setupVars>>

\* -------------------------------------------------------------- workers

\* http.NewRequest(req.Method, host + req.URL, body) returns an error: the
\* joined string is not a URL.
NewRequestErr(q) == q.url # "/ingest"

\* The host of a dispatch: endpoint.Hosts[count%sizeEndpoints].
PickHost(e, w) == wcount[e][w] % NumHosts

\* The worker's count after a dispatch: the loop never assigns it.
NextCount(c) == c

\* HTTPWorker, top of the loop: req := <-endpoint.WorkerChannel, then
\* http.NewRequest; on its error the worker logs and continues with the
\* next record.  Otherwise endpointRequests is incremented and the call
\* starts.
HTTPWorkerRecv(e, w) ==
    /\ wpc[e][w] = "recv"
    /\ wchan[e] # <<>>
    /\ LET q == Head(wchan[e]) IN
        /\ wchan' = [wchan EXCEPT ![e] = Tail(@)]
        /\ takenOrder' = [takenOrder EXCEPT ![e] = Append(@, q.id)]
        /\ ahead' = [ahead EXCEPT ![e] = [r \in DOMAIN @ |-> @[r] \ {q.id}]]
        /\ IF NewRequestErr(q)
           THEN UNCHANGED <<wpc, wreq, epRequests>>
           ELSE /\ wpc' = [wpc EXCEPT ![e][w] = "do"]
                /\ wreq' = [wreq EXCEPT ![e][w] = q]
                /\ epRequests' = [epRequests EXCEPT ![e] = @ + 1]
    /\ UNCHANGED <<ingressVars, queue, dpc, ditem, dcount, wcount, epFailures, budget,
                   okCalls, enqOrder, sentTo, aheadAt, setupVars>>

\* A worker that takes a 5xx response for a failed call.
IsFailureOn5xx(err, status) == err \/ status = "5xx"

\* The test after client.Do: "if err != nil".  The response's status is
\* not looked at.
IsFailure(err, status) == err

\* HTTPWorker: client.Do(proxyReq) returns, with a transport error or with
\* a response of the status the upstream answers with.  On a failure the
\* worker increments endpointFailures and goes on to send the record to
\* Writer; otherwise it drains the body and loops.  The latency observation
\* made on both paths changes no state a step reads.
HTTPWorkerDo(e, w) ==
    /\ wpc[e][w] = "do"
    /\ sentTo' = [sentTo EXCEPT ![e][w] = Append(@, PickHost(e, w))]
    /\ wcount' = [wcount EXCEPT ![e][w] = NextCount(@)]
    /\ \E err \in BOOLEAN :
        /\ err => nfail < failCap
        /\ nfail' = IF err THEN nfail + 1 ELSE nfail
        /\ IF IsFailure(err, upstream[e])
           THEN /\ epFailures' = [epFailures EXCEPT ![e] = @ + 1]
                /\ wpc' = [wpc EXCEPT ![e][w] = "retry"]
                /\ UNCHANGED <<wreq, okCalls>>
           ELSE /\ okCalls' = [okCalls EXCEPT ![e][wreq[e][w].id] = @ + 1]
                /\ wpc' = [wpc EXCEPT ![e][w] = "recv"]
                /\ wreq' = [wreq EXCEPT ![e][w] = NoReq]
                /\ UNCHANGED epFailures
    /\ UNCHANGED <<ingressVars, queue, dpc, ditem, dcount, wchan, epRequests, crashes,
                   enqOrder, takenOrder, ahead, aheadAt, setupVars>>

\* A retry that sends the failed record straight back to WorkerChannel.
RequeueToWorkers(e, q) ==
    /\ Len(wchan[e]) < Concurrency
    /\ wchan' = [wchan EXCEPT ![e] = Append(@, q)]
    /\ UNCHANGED <<queue, enqOrder, setupVars>>

\* The channel a failed record is sent to: endpoint.Writer <- req appends it
\* to the endpoint's own durable queue, once the queue receives it.
Requeue(e, q) ==
    /\ accepting[e]
    /\ queue' = [queue EXCEPT ![e] = Enqueue(@, q)]
    /\ enqOrder' = [enqOrder EXCEPT ![e] = Append(@, q.id)]
    /\ UNCHANGED wchan

\* HTTPWorker after a failed call: endpoint.Writer <- req, then continue.
HTTPWorkerRetry(e, w) ==
    /\ wpc[e][w] = "retry"
    /\ Requeue(e, wreq[e][w])
    /\ ahead' = [ahead EXCEPT ![e][wreq[e][w].id] = Ids(queue[e])]
    /\ aheadAt' = [aheadAt EXCEPT ![e][wreq[e][w].id] = Ids(queue[e])]
    /\ wpc' = [wpc EXCEPT ![e][w] = "recv"]
    /\ wreq' = [wreq EXCEPT ![e][w] = NoReq]
    /\ UNCHANGED <<ingressVars, dpc, ditem, dcount, wcount, epRequests, epFailures,
                   budget, okCalls, takenOrder, sentTo, setupVars>>

\* ------------------------------------------------------- specification

Next ==
    \/ \E r \in Reqs : HandleRequest(r)
    \/ \E r \in Reqs : HandleFanout(r)
    \/ \E r \in Reqs : HandleReply(r)
    \/ \E e \in Eps : ReadDiskChannelRecv(e)
    \/ \E e \in Eps : ReadDiskChannelSend(e)
    \/ \E e \in Eps, w \in Workers : HTTPWorkerRecv(e, w)
    \/ \E e \in Eps, w \in Workers : HTTPWorkerDo(e, w)
    \/ \E e \in Eps, w \in Workers : HTTPWorkerRetry(e, w)

Spec == Init /\ [][Next]_vars

\* The scheduler runs a handler that can take a step: a handler whose next
\* step stays possible is not left waiting forever.  Nothing is assumed
\* about the dispatchers, the workers or the upstreams.
FairSpec ==
    /\ Spec
    /\ \A r \in Reqs : WF_vars(HandleFanout(r)) /\ WF_vars(HandleReply(r))

\* ------------------------------------------------- a queue that is busy

\* The durable queue of endpoint e stops receiving from Writer for a while
\* (4.1: enqueue may block on disk I/O such as a segment rotation), and
\* receives again.
DurableBusy(e) ==
    /\ accepting[e]
    /\ accepting' = [accepting EXCEPT ![e] = FALSE]
    /\ UNCHANGED <<runVars, upstream, failCap, startVars, tlsVars>>

DurableReady(e) ==
    /\ ~accepting[e]
    /\ accepting' = [accepting EXCEPT ![e] = TRUE]
    /\ UNCHANGED <<runVars, upstream, failCap, startVars, tlsVars>>

StallNext ==
    \/ Next
    \/ \E e \in Eps : DurableBusy(e)
    \/ \E e \in Eps : DurableReady(e)

StallSpec == Init /\ [][StallNext]_vars

\* ------------------------------------------------------ kill and restart

\* The process is killed and started again.  Everything ListenAndServe
\* builds is in memory and starts afresh: the channels made by
\* make(chan ...), the goroutines and their locals, the metrics.  A handler
\* killed inside its loop never answers.  The durable queue keeps what it
\* holds.  The observers of the pipeline's order start afresh with the new
\* process (the queue's content counts as enqueued, in its order); what the
\* clients and the upstreams have seen (handed, okCalls) stays.
KillAndRestart ==
    /\ crashes < MaxCrash
    /\ crashes' = crashes + 1
    /\ hpc' = [r \in Reqs |-> IF hpc[r] = "fanout" THEN "done" ELSE hpc[r]]
    /\ requests' = 0
    /\ failures' = 0
    /\ epRequests' = [e \in Eps |-> 0]
    /\ epFailures' = [e \in Eps |-> 0]
    /\ dpc' = [e \in Eps |-> "recv"]
    /\ ditem' = [e \in Eps |-> NoReq]
    /\ dcount' = [e \in Eps |-> 0]
    /\ wchan' = [e \in Eps |-> <<>>]
    /\ wpc' = [e \in Eps |-> [w \in Workers |-> "recv"]]
    /\ wreq' = [e \in Eps |-> [w \in Workers |-> NoReq]]
    /\ wcount' = [e \in Eps |-> [w \in Workers |-> 0]]
    /\ enqOrder' = [e \in Eps |-> [i \in 1..Len(queue[e]) |-> queue[e][i].id]]
    /\ takenOrder' = [e \in Eps |-> <<>>]
    /\ sentTo' = [e \in Eps |-> [w \in Workers |-> <<>>]]
    /\ ahead' = [e \in Eps |-> [r \in Reqs |-> {}]]
    /\ aheadAt' = [e \in Eps |-> [r \in Reqs |-> {}]]
    /\ UNCHANGED <<hidx, rec, resp, queue, nfail, handed, okCalls, setupVars>>

CrashNext == Next \/ KillAndRestart

CrashSpec == Init /\ [][CrashNext]_vars

\* ------------------------------------------------------------ startup

\* A loop over the endpoints that ends one endpoint short.
LoopDoneEarly(b) == b.ep >= Len(cfg)

\* "for _, endpoint := range config.Endpoints" has run for every endpoint.
LoopDone(b) == b.ep > Len(cfg)

\* ListenAndServe up to the loop over the endpoints: the defaults, the data
\* directory (log.Fatal when it cannot be made), the metrics.
ListenAndServeInit ==
    /\ boot.pc = "init"
    /\ \E mkdirErr \in BOOLEAN :
        boot' = [boot EXCEPT !.pc = IF mkdirErr THEN "fatal" ELSE "validate"]
    /\ UNCHANGED <<cfg, started, runVars, envVars, tlsVars>>

\* One iteration of "for _, host := range endpoint.Hosts": isValidURL(host)
\* and, when it returns false, log.Fatalf naming the endpoint and the host.
\* A panic inside isValidURL ends the process with the panic.
ListenAndServeValidate ==
    /\ boot.pc = "validate"
    /\ ~LoopDone(boot)
    /\ boot.host <= Len(cfg[boot.ep])
    /\ LET s == cfg[boot.ep][boot.host]
           v == isValidURL(s)
       IN  boot' = CASE v = "true"  -> [boot EXCEPT !.host = @ + 1]
                     [] v = "false" -> [boot EXCEPT !.pc = "fatal", !.msg = <<boot.ep, s>>]
                     [] OTHER       -> [boot EXCEPT !.pc = "panic"]
    /\ UNCHANGED <<cfg, started, runVars, envVars, tlsVars>>

\* The rest of the loop body for an endpoint whose hosts all passed: the
\* channels, durable.Channel, the Endpoint value, "go HTTPWorker(e)"
\* `concurrency` times and "go ReadDiskChannel(e)".
ListenAndServeSpawn ==
    /\ boot.pc = "validate"
    /\ ~LoopDone(boot)
    /\ boot.host > Len(cfg[boot.ep])
    /\ started' = [started EXCEPT ![boot.ep] = AllStarted]
    /\ boot' = [boot EXCEPT !.ep = @ + 1, !.host = 1]
    /\ UNCHANGED <<cfg, runVars, envVars, tlsVars>>

\* After the loop: the handlers are registered and http.ListenAndServe
\* starts accepting requests.
ListenAndServeListen ==
    /\ boot.pc = "validate"
    /\ LoopDone(boot)
    /\ boot' = [boot EXCEPT !.pc = "serving"]
    /\ UNCHANGED <<cfg, started, runVars, envVars, tlsVars>>

\* The process starts with any configuration of Configs.
StartInit ==
    /\ cfg \in Configs
    /\ boot = [pc |-> "init", ep |-> 1, host |-> 1, msg |-> <<>>]
    /\ started = [e \in Eps |-> NotStarted]
    /\ tlsWriters = {}
    /\ tlsStores = <<>>
    /\ InitEnv
    /\ InitPipeline

StartNext ==
    \/ ListenAndServeInit
    \/ ListenAndServeValidate
    \/ ListenAndServeSpawn
    \/ ListenAndServeListen

StartSpec == StartInit /\ [][StartNext]_vars

\* ------------------------------------------------ the workers' prologue

\* HTTPWorker before its loop: the goroutine reads the process-wide
\* http.DefaultTransport, asserts it to *http.Transport and starts the
\* store "defaultTransport.TLSClientConfig = &tls.Config{...}".  No lock
\* or channel orders the store with those of the other goroutines.
HTTPWorkerStart(e, w) ==
    /\ <<e, w>> \notin tlsWriters
    /\ <<e, w>> \notin Range(tlsStores)
    /\ tlsWriters' = tlsWriters \cup {<<e, w>>}
    /\ UNCHANGED <<tlsStores, runVars, envVars, startVars>>

\* The store completes: the transport holds this worker's tls.Config (of
\* two overlapping stores, the one that completes last stays).  The worker
\* builds its http.Client around the shared transport and enters its loop.
HTTPWorkerSetTLS(e, w) ==
    /\ <<e, w>> \in tlsWriters
    /\ tlsWriters' = tlsWriters \ {<<e, w>>}
    /\ tlsStores' = Append(tlsStores, <<e, w>>)
    /\ UNCHANGED <<runVars, envVars, startVars>>

\* ListenAndServe has spawned every goroutine; none has run yet.
TransportInit ==
    /\ cfg = [e \in Eps |-> [h \in 1..NumHosts |-> "http://a"]]
    /\ boot = [pc |-> "serving", ep |-> NumEndpoints + 1, host |-> 1, msg |-> <<>>]
    /\ started = [e \in Eps |-> AllStarted]
    /\ tlsWriters = {}
    /\ tlsStores = <<>>
    /\ InitEnv
    /\ InitPipeline

TransportNext ==
    \/ \E e \in Eps, w \in Workers : HTTPWorkerStart(e, w)
    \/ \E e \in Eps, w \in Workers : HTTPWorkerSetTLS(e, w)

TransportSpec == TransportInit /\ [][TransportNext]_vars

\* ------------------------------------------- restart with a backlog

\* Ids of the records a previous run left in a durable queue: enough to
\* occupy every worker, fill WorkerChannel and leave one with the dispatcher.
Backlog == 1..(2 * Concurrency + 1)

\* The process starts on a data directory in which the queue of the first
\* endpoint holds the records of Backlog, which the previous run
\* acknowledged and delivered to the other endpoints.  No ingress traffic
\* arrives.  The upstream of the first endpoint answers 2xx or 5xx, and up
\* to `concurrency` calls end in a transport error.
ReplayInit ==
    /\ InitServing
    /\ \E u \in {"2xx", "5xx"} : upstream = [e \in Eps |-> IF e = 1 THEN u ELSE "2xx"]
    /\ failCap = Concurrency
    /\ accepting = [e \in Eps |-> TRUE]
    /\ hpc = [r \in Backlog |-> "done"]
    /\ hidx = [r \in Backlog |-> NumEndpoints + 1]
    /\ rec = [r \in Backlog |-> [id |-> r, size |-> MaxMsgSize, url |-> "/ingest"]]
    /\ resp = [r \in Backlog |-> StatusNoContent]
    /\ requests = 0
    /\ failures = 0
    /\ queue = [e \in Eps |-> IF e = 1 THEN [i \in Backlog |-> rec[i]] ELSE <<>>]
    /\ dpc = [e \in Eps |-> "recv"]
    /\ ditem = [e \in Eps |-> NoReq]
    /\ dcount = [e \in Eps |-> 0]
    /\ wchan = [e \in Eps |-> <<>>]
    /\ wpc = [e \in Eps |-> [w \in Workers |-> "recv"]]
    /\ wreq = [e \in Eps |-> [w \in Workers |-> NoReq]]
    /\ wcount = [e \in Eps |-> [w \in Workers |-> 0]]
    /\ epRequests = [e \in Eps |-> 0]
    /\ epFailures = [e \in Eps |-> 0]
    /\ crashes = 0
    /\ nfail = 0
    /\ handed = [r \in Backlog |-> [e \in Eps |-> 1]]
    /\ okCalls = [e \in Eps |-> [r \in Backlog |-> IF e = 1 THEN 0 ELSE 1]]
    /\ enqOrder = [e \in Eps |-> [i \in 1..Len(queue[e]) |-> queue[e][i].id]]
    /\ takenOrder = [e \in Eps |-> <<>>]
    /\ sentTo = [e \in Eps |-> [w \in Workers |-> <<>>]]
    /\ ahead = [e \in Eps |-> [r \in Backlog |-> {}]]
    /\ aheadAt = [e \in Eps |-> [r \in Backlog |-> {}]]

\* The steps of the pipelines alone.
ReplayNext ==
    \/ \E e \in Eps : ReadDiskChannelRecv(e)
    \/ \E e \in Eps : ReadDiskChannelSend(e)
    \/ \E e \in Eps, w \in Workers : HTTPWorkerRecv(e, w)
    \/ \E e \in Eps, w \in Workers : HTTPWorkerDo(e, w)
    \/ \E e \in Eps, w \in Workers : HTTPWorkerRetry(e, w)

ReplaySpec == ReplayInit /\ [][ReplayNext]_vars

\* A worker whose send to Writer can complete is scheduled: the Go runtime
\* wakes a goroutine blocked on a channel once the other side is ready.
FairReplaySpec ==
    /\ ReplaySpec
    /\ \A e \in Eps, w \in Workers : WF_vars(HTTPWorkerRetry(e, w))

\* ------------------------------------------------------------ properties

IsPrefix(s, t) == Len(s) <= Len(t) /\ \A i \in 1..Len(s) : s[i] = t[i]

\* Nothing of endpoint e's pipeline holds a record: the queue and the worker
\* channel are empty, the dispatcher and every worker wait to receive.
PipelineEmpty(e) ==
    /\ queue[e] = <<>>
    /\ dpc[e] = "recv"
    /\ wchan[e] = <<>>
    /\ \A w \in Workers : wpc[e][w] = "recv"

\* Record r is somewhere in endpoint e's pipeline.
InPipeline(e, r) ==
    \/ r \in Ids(queue[e])
    \/ ditem[e].id = r
    \/ r \in Ids(wchan[e])
    \/ \E w \in Workers : wreq[e][w].id = r

\* C1 (at-least-once): every request answered 204 is, for every endpoint
\* group, eventually carried by a non-error HTTP call.  Stated on the final
\* result, for the requests within the size limit: once an endpoint's
\* pipeline holds nothing, no later step can deliver a record to it, so every
\* acknowledged request must have been delivered there by then.
C1_AtLeastOnce ==
    \A r \in Reqs, e \in Eps :
        (resp[r] = StatusNoContent /\ Accepts(rec[r]) /\ PipelineEmpty(e))
            => okCalls[e][r] >= 1

\* C2 (fan-out before the acknowledgment): when a request has been answered
\* 204, HandleRequest has sent its record to the Writer of every endpoint
\* group exactly once; and it never sends a record twice to one Writer.
C2_FanoutBeforeAck ==
    /\ \A r \in Reqs : resp[r] = StatusNoContent =>
            \A e \in Eps : handed[r][e] = 1 /\ r \in Range(enqOrder[e])
    /\ \A r \in Reqs, e \in Eps : handed[r][e] <= 1

\* A request has been answered 204 after a fan-out to more than one endpoint.
C2_Witness ==
    /\ NumEndpoints >= 2
    /\ \E r \in Reqs : resp[r] = StatusNoContent /\ hidx[r] = NumEndpoints + 1

\* C3 (durability across a kill): a request answered 204 and not yet
\* delivered when the process is killed reaches every endpoint group's
\* upstream after the restart, wherever its record was at the kill.  Stated
\* on the final result, for the records the pipeline can carry (within the
\* size limit, outbound request buildable): after a kill, once an endpoint's
\* pipeline holds nothing, every acknowledged request has been delivered.
C3_CrashDurability ==
    \A r \in Reqs, e \in Eps :
        (/\ crashes > 0
         /\ resp[r] = StatusNoContent
         /\ Accepts(rec[r])
         /\ ~NewRequestErr(rec[r])
         /\ PipelineEmpty(e))
            => okCalls[e][r] >= 1

\* C4 (removal only after delivery or re-enqueue): a record the durable
\* queue of an endpoint accepted and that no worker has delivered is held
\* by that queue.
C4_HeldUntilDelivered ==
    \A r \in Reqs, e \in Eps :
        (handed[r][e] >= 1 /\ Accepts(rec[r]) /\ okCalls[e][r] = 0)
            => r \in Ids(queue[e])

\* C5 (a worker never drops a record): a record a worker has received from
\* the worker channel has been delivered by a non-error call, or is held by
\* a worker, or is back in the endpoint's pipeline.
C5_WorkerNeverDrops ==
    \A e \in Eps : \A r \in Range(takenOrder[e]) :
        okCalls[e][r] >= 1 \/ InPipeline(e, r)

\* C6 (bounded body): a request whose body is longer than max_message_size
\* is handed to no endpoint's Writer, and when the handler is done it has
\* answered 400 and incremented failures.
C6_BoundedBody ==
    \A r \in Reqs :
        rec[r].size > MaxMsgSize =>
            /\ \A e \in Eps : handed[r][e] = 0
            /\ hpc[r] = "done" => (resp[r] = StatusBadRequest /\ failures >= 1)

\* C7 (round-robin): the k-th dispatch of a worker (k = 0, 1, 2, ...) goes
\* to hosts[k mod len(hosts)].
C7_RoundRobin ==
    \A e \in Eps, w \in Workers :
        \A k \in 1..Len(sentTo[e][w]) : sentTo[e][w][k] = (k - 1) % NumHosts

\* Dispatches of worker w of endpoint e to host h; of the endpoint to host h;
\* of the endpoint.
WorkerHostCount(e, w, h) ==
    Cardinality({k \in 1..Len(sentTo[e][w]) : sentTo[e][w][k] = h})

RECURSIVE SumOver(_, _, _, _)
SumOver(e, h, w, acc) ==
    IF w = 0 THEN acc ELSE SumOver(e, h, w - 1, acc + WorkerHostCount(e, w, h))

HostCount(e, h) == SumOver(e, h, Concurrency, 0)

RECURSIVE SumLen(_, _, _)
SumLen(e, w, acc) ==
    IF w = 0 THEN acc ELSE SumLen(e, w - 1, acc + Len(sentTo[e][w]))

Dispatches(e) == SumLen(e, Concurrency, 0)

CeilDiv(n, d) == (n + d - 1) \div d

\* C8 (load-balance bound): after N dispatches to an endpoint group with H
\* hosts and W workers, every host has received at least floor(N/H) and at
\* most ceil(N/H) + W of them.
C8_LoadBalance ==
    \A e \in Eps, h \in Hosts :
        /\ HostCount(e, h) >= Dispatches(e) \div NumHosts
        /\ HostCount(e, h) <= CeilDiv(Dispatches(e), NumHosts) + Concurrency

\* The ids Writer received for endpoint e that the durable queue accepted, in
\* the order of their enqueue.
AcceptedOrder(e) ==
    SelectSeq(enqOrder[e], LAMBDA id : Accepts(rec[id]))

\* C9 (order within a pipeline): in an endpoint pipeline without dispatch
\* failures, workers take the records from the worker channel in the order
\* in which they were enqueued: what the workers have taken so far is the
\* beginning of the sequence of enqueued records.
C9_OrderWithinPipeline ==
    \A e \in Eps :
        epFailures[e] = 0 => IsPrefix(takenOrder[e], AcceptedOrder(e))

\* Two records, enqueued in the order 2, 1 by two concurrent handlers, have
\* been taken by the two workers of a pipeline without failures, which both
\* hold one.
C9_Witness ==
    \E e \in Eps :
        /\ epFailures[e] = 0
        /\ Len(takenOrder[e]) >= 2
        /\ takenOrder[e][1] = 2
        /\ takenOrder[e][2] = 1
        /\ \E w1, w2 \in Workers : w1 # w2 /\ wpc[e][w1] = "do" /\ wpc[e][w2] = "do"

\* C10 (retry ordering): a re-enqueued record is handed to a worker again
\* only after every record that was in the durable queue at the moment of
\* its re-enqueue has been handed to a worker.
C10_RetryOrdering ==
    \A e \in Eps, w \in Workers :
        wpc[e][w] \in {"do", "retry"} => ahead[e][wreq[e][w].id] = {}

\* A worker holds a record again that was re-enqueued behind another one.
C10_Witness ==
    \E e \in Eps, w \in Workers :
        /\ wpc[e][w] = "do"
        /\ aheadAt[e][wreq[e][w].id] # {}
        /\ epFailures[e] >= 1

\* C11 (any HTTP response counts as delivery): when client.Do returns a
\* response, whatever its status (the upstream of the endpoint may answer
\* 5xx to everything), the worker does not send the record back to Writer
\* and does not increment endpoint_failures: the call counts as the
\* record's delivery and the worker receives again.  Only a call that ends
\* in a transport error increments endpoint_failures and leads to the
\* re-enqueue.
C11_AnyResponseDelivers ==
    [][\A e \in Eps, w \in Workers :
        (wpc[e][w] = "do" /\ wpc'[e][w] # "do") =>
            IF nfail' = nfail
            THEN /\ wpc'[e][w] = "recv"
                 /\ epFailures'[e] = epFailures[e]
                 /\ queue'[e] = queue[e]
                 /\ enqOrder'[e] = enqOrder[e]
                 /\ okCalls'[e][wreq[e][w].id] = okCalls[e][wreq[e][w].id] + 1
            ELSE /\ wpc'[e][w] = "retry"
                 /\ epFailures'[e] = epFailures[e] + 1
                 /\ okCalls'[e] = okCalls[e]]_vars

\* A record taken by a worker of an endpoint whose upstream answers 5xx has
\* left the pipeline after one call, with no failure counted.
C11_Witness ==
    \E e \in Eps :
        /\ upstream[e] = "5xx"
        /\ epFailures[e] = 0
        /\ \E r \in Range(takenOrder[e]) : okCalls[e][r] = 1 /\ ~InPipeline(e, r)

\* C12 (ingress outcome and counters): every invocation of the handler
\* increments requests exactly once; an invocation whose body read fails
\* answers 400, increments failures exactly once and hands no record to any
\* Writer; every other invocation leaves failures alone and answers 204
\* when it answers.
C12_IngressCounters ==
    /\ requests = Cardinality({r \in Reqs : hpc[r] # "idle"})
    /\ failures = Cardinality({r \in Reqs : resp[r] = StatusBadRequest})
    /\ \A r \in Reqs : resp[r] = StatusBadRequest =>
            /\ hpc[r] = "done"
            /\ \A e \in Eps : handed[r][e] = 0 /\ r \notin Range(enqOrder[e])
    /\ \A r \in Reqs : (hpc[r] = "done" /\ rec[r] # NoReq) => resp[r] = StatusNoContent
    /\ \A r \in Reqs : (hpc[r] = "done" /\ rec[r] = NoReq) => resp[r] = StatusBadRequest

\* Two invocations have ended, one with 400 and one with 204.
C12_Witness ==
    /\ requests = 2
    /\ failures = 1
    /\ \E r1, r2 \in Reqs : resp[r1] = StatusBadRequest /\ resp[r2] = StatusNoContent

\* A host string that is an absolute URL with the scheme http or https.
AbsoluteHTTP(s) == s \in {"http://a", "https://a"}

\* C13 (host validation at startup): a configured host that is not an
\* absolute http or https URL ends startup in the fatal error naming the
\* endpoint and the host, with no pipeline started for that endpoint; the
\* check never reads the parse result of a failed parse (which would end
\* the process in a panic instead).
C13_HostValidation ==
    /\ boot.pc # "panic"
    /\ (boot.pc = "fatal" /\ boot.msg # <<>>) =>
            /\ boot.msg = <<boot.ep, cfg[boot.ep][boot.host]>>
            /\ ~AbsoluteHTTP(cfg[boot.ep][boot.host])
            /\ started[boot.ep] = NotStarted
    /\ \A e \in 1..Len(cfg) :
            started[e] # NotStarted => \A h \in 1..Len(cfg[e]) : AbsoluteHTTP(cfg[e][h])

\* C14 (empty configuration rejected): the process never serves ingress
\* with no endpoint group or with a group whose host list is empty, and
\* never starts workers on an empty host list.
C14_EmptyConfigRejected ==
    /\ boot.pc = "serving" => Len(cfg) >= 1
    /\ \A e \in 1..Len(cfg) : started[e] # NotStarted => Len(cfg[e]) >= 1

\* C17 (startup ordering): when the ingress handler can accept requests,
\* the dispatcher and all `concurrency` workers of every configured endpoint
\* group have been started.
C17_StartupOrdering ==
    boot.pc = "serving" => \A e \in 1..Len(cfg) : started[e] = AllStarted

\* The process serves a configuration of several endpoint groups with
\* several hosts each.
C17_Witness ==
    /\ boot.pc = "serving"
    /\ Len(cfg) = NumEndpoints
    /\ NumEndpoints >= 2
    /\ \A e \in 1..Len(cfg) : Len(cfg[e]) = NumHosts /\ started[e].workers = Concurrency

\* C15 (ingress is acknowledged during an upstream outage): a request whose
\* body has been read is eventually answered 204, as long as the handler
\* itself is scheduled; the acknowledgment needs no step of a dispatcher,
\* of a worker or of an upstream, so calls that fail, hang or are retried
\* do not hold it back.
C15_AckDuringOutage ==
    \A r \in Reqs : (hpc[r] = "fanout") ~> (resp[r] = StatusNoContent)

\* A request has been answered 204 while, in some endpoint, its record has
\* failed and has not been delivered.
C15_Witness ==
    \E r \in Reqs, e \in Eps :
        /\ resp[r] = StatusNoContent
        /\ epFailures[e] >= 1
        /\ okCalls[e][r] = 0
        /\ \E w \in Workers : wpc[e][w] = "retry" /\ wreq[e][w].id = r

\* C16 (exactly one copy per group without failures): while no call has
\* failed, no request has been carried by more than one call per endpoint
\* group, the record a worker sends is the one the handler built, and once
\* an endpoint's pipeline holds nothing every request answered 204 (whose
\* outbound request can be built) has been carried by exactly one call to
\* that group.
C16_ExactlyOneCopy ==
    nfail = 0 =>
        /\ \A r \in Reqs, e \in Eps : okCalls[e][r] <= 1
        /\ \A e \in Eps, w \in Workers :
                wpc[e][w] = "do" => wreq[e][w] = rec[wreq[e][w].id]
        /\ \A r \in Reqs, e \in Eps :
                (resp[r] = StatusNoContent /\ ~NewRequestErr(rec[r]) /\ PipelineEmpty(e))
                    => okCalls[e][r] = 1

\* C18 (pipelines independent at ingress): a pipeline whose inbox does not
\* accept records right now does not hold back the hand-over of the same
\* request to another pipeline: while some pipeline that has not received
\* the request accepts, the handler can go on handing it over.
C18_IndependentAtIngress ==
    \A r \in Reqs :
        (hpc[r] = "fanout" /\ \E e \in Eps : handed[r][e] = 0 /\ accepting[e])
            => ENABLED HandleFanout(r)

\* C18, amended: the handler hands a request over in the order of the
\* configuration and waits at the first inbox that does not accept: the
\* pipelines before it have received the request (and go on delivering
\* it, whatever the state of the other inboxes), the pipelines from it on
\* have not, accepting or not.
C18_SequentialFanout ==
    /\ \A r \in Reqs :
        (hpc[r] = "fanout" /\ ~FanoutComplete(r)) =>
            /\ ENABLED HandleFanout(r) <=> accepting[hidx[r]]
            /\ \A e \in Eps : handed[r][e] = IF e < hidx[r] THEN 1 ELSE 0
    /\ \A e \in Eps :
        /\ (dpc[e] = "recv" /\ queue[e] # <<>>) => ENABLED ReadDiskChannelRecv(e)
        /\ \A w \in Workers : wpc[e][w] = "do" => ENABLED HTTPWorkerDo(e, w)

\* A handler waits at the second inbox, which does not accept, while the
\* first pipeline has delivered the request.
C18_Witness ==
    \E r \in Reqs :
        /\ hpc[r] = "fanout"
        /\ hidx[r] = 2
        /\ ~accepting[2]
        /\ accepting[1]
        /\ okCalls[1][r] = 1

\* C19 (no shared mutable state between pipelines): no object is written by
\* the workers of two pipelines, and no two workers are inside a write of
\* the same HTTP transport at the same time.
C19_NoSharedTransport ==
    /\ Cardinality(tlsWriters) <= 1
    /\ \A a, b \in tlsWriters \cup Range(tlsStores) : a[1] = b[1]

\* Every worker of endpoint e waits to send a failed record to Writer, the
\* dispatcher waits to send to the full WorkerChannel, and none of these
\* sends can complete.
RetryDeadlock(e) ==
    /\ \A w \in Workers : wpc[e][w] = "retry"
    /\ dpc[e] = "send"
    /\ Len(wchan[e]) = Concurrency
    /\ ~ENABLED ReadDiskChannelSend(e)
    /\ \A w \in Workers : ~ENABLED HTTPWorkerRetry(e, w)

\* C20 (the retry path cannot deadlock a pipeline): no reachable state is a
\* RetryDeadlock, and a worker that has a failed record to re-enqueue
\* completes the send and returns to receiving from WorkerChannel.
C20_NoRetryDeadlock ==
    /\ [](\A e \in Eps : ~RetryDeadlock(e))
    /\ \A e \in Eps, w \in Workers : (wpc[e][w] = "retry") ~> (wpc[e][w] = "recv")

\* Every worker of an endpoint holds a failed record to re-enqueue while the
\* dispatcher waits on the full WorkerChannel.
C20_Witness ==
    \E e \in Eps :
        /\ \A w \in Workers : wpc[e][w] = "retry"
        /\ dpc[e] = "send"
        /\ Len(wchan[e]) = Concurrency

====
